---- MODULE Spec2Model ----
(***************************************************************************)
(* A model of the NHSE scraper (nhse_scraper.py) and of the Benchmarking   *)
(* tab of the dashboard (streamlit_app.py).                                *)
(*                                                                         *)
(* Text is a sequence of one-character strings, so that lower(), strip(),  *)
(* substring tests and pandas' str.contains (a regular-expression search)  *)
(* are computed character by character.  A cell value is a record          *)
(* [k, s]: its kind (str, int, float, nan) and its text.  A table is       *)
(* [cols, rows]: the column labels in order and the rows, each a tuple of  *)
(* values aligned with cols.  A file is a sequence of units: the lines of  *)
(* a CSV file, or the parts of a ZIP/XLSX container.                       *)
(***************************************************************************)
EXTENDS Integers, Sequences, FiniteSets, TLC

(***************************************************************************)
(* Text                                                                    *)
(***************************************************************************)
UpperChars == <<"A","B","C","D","E","F","G","H","I","J","K","L","M",
                "N","O","P","Q","R","S","T","U","V","W","X","Y","Z">>

LowerChars == <<"a","b","c","d","e","f","g","h","i","j","k","l","m",
                "n","o","p","q","r","s","t","u","v","w","x","y","z">>

Digits == <<"0","1","2","3","4","5","6","7","8","9">>

LowerChar(c) ==
    IF \E i \in 1..Len(UpperChars) : UpperChars[i] = c
    THEN LowerChars[CHOOSE i \in 1..Len(UpperChars) : UpperChars[i] = c]
    ELSE c

\* str.lower()
Lower(t) == [i \in 1..Len(t) |-> LowerChar(t[i])]

RECURSIVE LStrip(_)
LStrip(t) == IF t # <<>> /\ Head(t) = " " THEN LStrip(Tail(t)) ELSE t

RECURSIVE RStrip(_)
RStrip(t) ==
    IF t # <<>> /\ t[Len(t)] = " " THEN RStrip(SubSeq(t, 1, Len(t) - 1)) ELSE t

\* str.strip()
Strip(t) == RStrip(LStrip(t))

\* frag in text  (plain substring test of Python's "in")
Contains(text, frag) ==
    \E i \in 0..(Len(text) - Len(frag)) :
        \A j \in 1..Len(frag) : text[i + j] = frag[j]

\* One pattern character of a regular expression against one character of
\* the subject: "." matches any character, every other character of the
\* alphabet used here stands for itself.
ReCharMatches(pc, c) == pc = "." \/ pc = c

\* re.search(pat, text) is not None, for patterns without other operators
ReSearch(pat, text) ==
    \E i \in 0..(Len(text) - Len(pat)) :
        \A j \in 1..Len(pat) : ReCharMatches(pat[j], text[i + j])

\* Series.str.contains(pat): regex=True is the default of pandas
StrContains(text, pat) == ReSearch(pat, text)

IsDigit(c) == \E i \in 1..Len(Digits) : Digits[i] = c

AllDigits(t) == t # <<>> /\ \A i \in 1..Len(t) : IsDigit(t[i])

DotAt(t) == CHOOSE p \in 1..Len(t) : t[p] = "."

IsIntText(t) == AllDigits(t)

IsFloatText(t) ==
    /\ Cardinality({p \in 1..Len(t) : t[p] = "."}) = 1
    /\ AllDigits(SubSeq(t, 1, DotAt(t) - 1))
    /\ AllDigits(SubSeq(t, DotAt(t) + 1, Len(t)))

RECURSIVE CanonInt(_)
CanonInt(t) == IF Len(t) > 1 /\ Head(t) = "0" THEN CanonInt(Tail(t)) ELSE t

RECURSIVE CanonFrac(_)
CanonFrac(t) ==
    IF Len(t) > 1 /\ t[Len(t)] = "0" THEN CanonFrac(SubSeq(t, 1, Len(t) - 1)) ELSE t

CanonFloat(t) ==
    CanonInt(SubSeq(t, 1, DotAt(t) - 1)) \o <<".">>
        \o CanonFrac(SubSeq(t, DotAt(t) + 1, Len(t)))

NatText(n) == <<Digits[n + 1]>>

(***************************************************************************)
(* Values and tables                                                       *)
(***************************************************************************)
NaN == [k |-> "nan", s |-> <<>>]

StrVal(t) == [k |-> "str", s |-> t]

IntVal(t) == [k |-> "int", s |-> CanonInt(t)]

FloatVal(t) == [k |-> "float", s |-> t]

T_nan == <<"n","a","n">>

\* str(v), the element-wise conversion of Series.astype(str)
AsStr(v) == IF v.k = "nan" THEN T_nan ELSE v.s

ColIndex(cols, c) == CHOOSE j \in 1..Len(cols) : cols[j] = c

HasCol(cols, c) == \E j \in 1..Len(cols) : cols[j] = c

Column(tbl, c) == [i \in 1..Len(tbl.rows) |-> tbl.rows[i][ColIndex(tbl.cols, c)]]

\* df[c] = values: replaces the column when it exists, else appends it
SetColumn(tbl, c, values) ==
    IF HasCol(tbl.cols, c)
    THEN [cols |-> tbl.cols,
          rows |-> [i \in 1..Len(tbl.rows) |->
                      [j \in 1..Len(tbl.cols) |->
                          IF tbl.cols[j] = c THEN values[i] ELSE tbl.rows[i][j]]]]
    ELSE [cols |-> Append(tbl.cols, c),
          rows |-> [i \in 1..Len(tbl.rows) |-> Append(tbl.rows[i], values[i])]]

RECURSIVE SelectSeq2(_, _, _)
\* the elements s[i] whose index i is in keep, in order
SelectSeq2(s, keep, i) ==
    IF i > Len(s) THEN <<>>
    ELSE (IF i \in keep THEN <<s[i]>> ELSE <<>>) \o SelectSeq2(s, keep, i + 1)

\* df[mask]: boolean indexing keeps the rows whose mask is true, in order
BoolIndex(tbl, mask) ==
    [cols |-> tbl.cols,
     rows |-> SelectSeq2(tbl.rows, {i \in 1..Len(tbl.rows) : mask[i]}, 1)]

\* df[[c1, c2, ...]]: the named columns, in the order named
Project(tbl, names) ==
    [cols |-> names,
     rows |-> [i \in 1..Len(tbl.rows) |->
                 [j \in 1..Len(names) |-> tbl.rows[i][ColIndex(tbl.cols, names[j])]]]]

EmptyTable == [cols |-> <<>>, rows |-> <<>>]

(***************************************************************************)
(* CSV: pandas.read_csv and DataFrame.to_csv(index=False)                  *)
(*                                                                         *)
(* A CSV file is its lines, each the tuple of its cell texts; the files    *)
(* considered are rectangular.  read_csv infers one dtype per column:      *)
(* int64 when every cell is an integer, float64 when every cell is a       *)
(* number or empty, object otherwise (the texts as written, empty -> NaN). *)
(***************************************************************************)
T_Unnamed == <<"U","n","n","a","m","e","d",":"," ">>

IsNumText(t) == t = <<>> \/ IsIntText(t) \/ IsFloatText(t)

CsvColName(header, j) ==
    IF header[j] = <<>> THEN T_Unnamed \o NatText(j - 1) ELSE header[j]

CsvCell(lines, j, raw) ==
    LET cells == {lines[i][j] : i \in 2..Len(lines)}
    IN  IF \E t \in cells : ~IsNumText(t)
        THEN IF raw = <<>> THEN NaN ELSE StrVal(raw)
        ELSE IF \A t \in cells : IsIntText(t)
        THEN IntVal(raw)
        ELSE IF raw = <<>> THEN NaN
        ELSE IF IsIntText(raw) THEN FloatVal(CanonInt(raw) \o <<".","0">>)
        ELSE FloatVal(CanonFloat(raw))

\* pd.read_csv: [ok, tbl]; an empty file raises EmptyDataError
ReadCsv(lines) ==
    IF lines = <<>>
    THEN [ok |-> FALSE, tbl |-> EmptyTable]
    ELSE [ok |-> TRUE,
          tbl |-> [cols |-> [j \in 1..Len(lines[1]) |-> CsvColName(lines[1], j)],
                   rows |-> [i \in 1..(Len(lines) - 1) |->
                               [j \in 1..Len(lines[1]) |->
                                   CsvCell(lines, j, lines[i + 1][j])]]]]

CsvText(v) == IF v.k = "nan" THEN <<>> ELSE v.s

\* df.to_csv(path): the index column is written as well (the default)
ToCsvWithIndex(tbl) ==
    <<(<< <<>> >> \o tbl.cols)>> \o
    [i \in 1..Len(tbl.rows) |->
        <<NatText(i - 1)>> \o [j \in 1..Len(tbl.cols) |-> CsvText(tbl.rows[i][j])]]

\* df.to_csv(path, index=False)
ToCsv(tbl) ==
    <<tbl.cols>> \o
    [i \in 1..Len(tbl.rows) |->
        [j \in 1..Len(tbl.cols) |-> CsvText(tbl.rows[i][j])]]

(***************************************************************************)
(* ZIP and XLSX containers (an XLSX workbook is a ZIP archive).  A file is *)
(* a signature part, the entries, and an end record counting the entries;  *)
(* zipfile.ZipFile and pd.ExcelFile raise on anything else.                *)
(***************************************************************************)
SigPart == [tag |-> "sig", name |-> <<>>, n |-> 0, data |-> <<>>]

EntryPart(name, data) == [tag |-> "entry", name |-> name, n |-> 0, data |-> data]

EndPart(n) == [tag |-> "eocd", name |-> <<>>, n |-> n, data |-> <<>>]

\* the bytes of a container holding the entries, each [name, data]
Container(entries) ==
    <<SigPart>> \o [i \in 1..Len(entries) |-> EntryPart(entries[i].name, entries[i].data)]
        \o <<EndPart(Len(entries))>>

IsContainer(b) ==
    /\ Len(b) >= 2
    /\ b[1].tag = "sig"
    /\ b[Len(b)].tag = "eocd"
    /\ b[Len(b)].n = Len(b) - 2
    /\ \A i \in 2..(Len(b) - 1) : b[i].tag = "entry"

\* the entries of a valid container, in order
Entries(b) == SubSeq(b, 2, Len(b) - 1)

\* f.write(b) on a file opened at offset 0: the bytes written replace the
\* bytes at the same offsets; what lies beyond them stays
Overlay(old, new) == new \o SubSeq(old, Len(new) + 1, Len(old))

(***************************************************************************)
(* Column labels.  A CSV header is text.  A header cell of a workbook may  *)
(* hold a date or a number, and then the label is not a str: calling       *)
(* .lower() on it raises AttributeError.                                   *)
(***************************************************************************)
DateLabel == <<"<datetime>">>

IsText(c) == c # DateLabel

T_provider_code == <<"p","r","o","v","i","d","e","r"," ","c","o","d","e">>
T_provider == <<"p","r","o","v","i","d","e","r">>
T_provider_name == <<"p","r","o","v","i","d","e","r","_","n","a","m","e">>
T_organisation == <<"o","r","g","a","n","i","s","a","t","i","o","n">>
T_Provider_Name == <<"P","r","o","v","i","d","e","r"," ","N","a","m","e">>
T_code == <<"c","o","d","e">>
T_attend == <<"a","t","t","e","n","d">>
T_within_4 == <<"w","i","t","h","i","n"," ","4">>
T_emergency_admissions ==
    <<"e","m","e","r","g","e","n","c","y"," ","a","d","m","i","s","s","i","o","n","s">>
T_pct_within_4 == <<"%"," ","w","i","t","h","i","n"," ","4">>
T_week_ending == <<"w","e","e","k"," ","e","n","d","i","n","g">>
T_week_end == <<"w","e","e","k"," ","e","n","d">>
T_date == <<"d","a","t","e">>
T_period == <<"p","e","r","i","o","d">>
T_PROVIDER == <<"P","R","O","V","I","D","E","R">>
T_metric_or_date == <<"m","e","t","r","i","c","_","o","r","_","d","a","t","e">>
T_value == <<"v","a","l","u","e">>
T_dot_csv == <<".","c","s","v">>

EndsWith(t, suffix) ==
    Len(t) >= Len(suffix) /\ SubSeq(t, Len(t) - Len(suffix) + 1, Len(t)) = suffix

\* next((c for c in cols if P(c)), None) where P calls c.lower(), sat being
\* the positions of the labels P holds of: the scan stops at the first label
\* that matches, or raises at the first label that is not text, whichever
\* comes first
Scan(cols, sat) ==
    LET hits == {j \in 1..Len(cols) : ~IsText(cols[j]) \/ j \in sat}
        j0 == CHOOSE j \in hits : \A h \in hits : j <= h
    IN  IF hits = {} THEN [kind |-> "none", col |-> <<>>]
        ELSE IF ~IsText(cols[j0]) THEN [kind |-> "raise", col |-> <<>>]
        ELSE [kind |-> "found", col |-> cols[j0]]

\* [c for c in cols if P(c)], sat as in Scan: every label is visited
ScanAll(cols, sat) ==
    IF \E j \in 1..Len(cols) : ~IsText(cols[j])
    THEN [kind |-> "raise", cols |-> <<>>]
    ELSE [kind |-> "found",
          cols |-> SelectSeq2(cols, sat, 1)]

(***************************************************************************)
(* Outcomes.  A fetch returns a table or raises; err is the exception and  *)
(* msg its message.                                                        *)
(***************************************************************************)
MsgAE == "Provider column not found in A&E monthly file."
MsgAmb == "Provider column not found in Ambulance handover file."
MsgAcute == "Provider column not found in Acute discharge file."
MsgMonth == "Month not in demo lookup; extend the list in fetch_rtt_full_csv."

\* what a pipeline yields: the resolved provider column, the table after
\* normalisation, after the peer filter, and the table returned
Raised(err, msg) ==
    [ok |-> FALSE, err |-> err, msg |-> msg, provcol |-> <<>>,
     norm |-> EmptyTable, filt |-> EmptyTable, result |-> EmptyTable]

Returned(provcol, norm, filt, result) ==
    [ok |-> TRUE, err |-> "", msg |-> "", provcol |-> provcol,
     norm |-> norm, filt |-> filt, result |-> result]

(***************************************************************************)
(* The peer filter                                                         *)
(***************************************************************************)
\* str(p).lower().strip()
PrepAE(p) == Strip(Lower(p))

\* p.lower()
PrepLower(p) == Lower(p)

\* mask = False; for p in peers.providers: mask = mask | contains(prep(p)),
\* prep stripping the token in the A&E fetcher only
PeerMask(tbl, providers, strips) ==
    [i \in 1..Len(tbl.rows) |->
        \E n \in 1..Len(providers) :
            StrContains(Lower(AsStr(Column(tbl, T_PROVIDER)[i])),
                        IF strips THEN PrepAE(providers[n]) ELSE PrepLower(providers[n]))]

\* df = df[mask] without the test of peers.providers: an empty PeerSet
\* leaves the all-False mask, and no row
PeerFilterDropAll(tbl, providers, mask) == BoolIndex(tbl, mask)

\* if peers.providers: df = df[mask]
PeerFilter(tbl, providers, mask) ==
    IF providers # <<>> THEN BoolIndex(tbl, mask) ELSE tbl

\* df["PROVIDER"] = df[prov_col].astype(str)
WithProvider(tbl, provcol) ==
    SetColumn(tbl, T_PROVIDER,
              [i \in 1..Len(tbl.rows) |-> StrVal(AsStr(Column(tbl, provcol)[i]))])

(***************************************************************************)
(* A&E monthly: concat, normalise, filter, project                         *)
(***************************************************************************)
RECURSIVE UnionCols(_, _)
\* the columns of the frames from i on, in order of first appearance
UnionCols(frames, i) ==
    IF i > Len(frames) THEN <<>>
    ELSE LET rest == UnionCols(frames, i + 1)
         IN  frames[i].cols \o
             SelectSeq2(rest, {j \in 1..Len(rest) : ~HasCol(frames[i].cols, rest[j])}, 1)

RECURSIVE ConcatRows(_, _, _)
ConcatRows(frames, cols, i) ==
    IF i > Len(frames) THEN <<>>
    ELSE [r \in 1..Len(frames[i].rows) |->
            [j \in 1..Len(cols) |->
                IF HasCol(frames[i].cols, cols[j])
                THEN frames[i].rows[r][ColIndex(frames[i].cols, cols[j])]
                ELSE NaN]]
         \o ConcatRows(frames, cols, i + 1)

\* the common dtype of a concatenated column: int64 met with float64 or
\* with missing values becomes float64; with object it stays as it is
Upcast(rows, j, v) ==
    LET kinds == {rows[r][j].k : r \in 1..Len(rows)}
    IN  IF v.k = "int" /\ "str" \notin kinds /\ kinds # {"int"}
        THEN FloatVal(v.s \o <<".","0">>)
        ELSE v

\* pd.concat(frames, ignore_index=True)
Concat(frames) ==
    LET cols == UnionCols(frames, 1)
        rows == ConcatRows(frames, cols, 1)
    IN  [cols |-> cols,
         rows |-> [r \in 1..Len(rows) |->
                     [j \in 1..Len(cols) |-> Upcast(rows, j, rows[r][j])]]]

AeSynonyms == {T_provider_code, T_provider, T_provider_name, T_organisation}

AeKeywords == {T_attend, T_within_4, T_emergency_admissions, T_pct_within_4}

AeIsSynonym(c) == Lower(c) \in AeSynonyms

\* prov_col of fetch_ae_monthly_provider; kind "none" raises ValueError
AeProvCol(cols) ==
    LET s == Scan(cols, {j \in 1..Len(cols) : AeIsSynonym(cols[j])})
    IN  IF s.kind = "none" /\ HasCol(cols, T_Provider_Name)
        THEN [kind |-> "found", col |-> T_Provider_Name]
        ELSE s

AeWanted(c) == \E k \in AeKeywords : Contains(Lower(c), Lower(k))

\* fetch_ae_monthly_provider from the concatenation on
AePipeline(frames, providers) ==
    LET ae == Concat(frames)
        pc == AeProvCol(ae.cols)
    IN  IF pc.kind = "raise" THEN Raised("AttributeError", "")
        ELSE IF pc.kind = "none" THEN Raised("ValueError", MsgAE)
        ELSE LET norm == WithProvider(ae, pc.col)
                 filt == PeerFilter(norm, providers, PeerMask(norm, providers, TRUE))
                 wanted == SelectSeq2(filt.cols,
                              {j \in 1..Len(filt.cols) : AeWanted(filt.cols[j])}, 1)
             IN  Returned(pc.col, norm, filt,
                          Project(filt, <<T_period, T_PROVIDER>> \o wanted))

(***************************************************************************)
(* Ambulance handover and acute discharge time series                      *)
(***************************************************************************)
IsProviderNotCode(c) == Contains(Lower(c), T_provider) /\ ~Contains(Lower(c), T_code)

IsOrganisation(c) == Contains(Lower(c), T_organisation)

IsTimeCol(c) ==
    \/ Contains(Lower(c), T_week_ending)
    \/ Contains(Lower(c), T_week_end)
    \/ Contains(Lower(c), T_date)

RECURSIVE MeltRows(_, _, _)
MeltRows(tbl, valueCols, n) ==
    IF n > Len(valueCols) THEN <<>>
    ELSE [i \in 1..Len(tbl.rows) |->
            <<tbl.rows[i][ColIndex(tbl.cols, T_PROVIDER)],
              StrVal(valueCols[n]),
              tbl.rows[i][ColIndex(tbl.cols, valueCols[n])]>>]
         \o MeltRows(tbl, valueCols, n + 1)

\* df.melt(id_vars=["PROVIDER"], var_name="metric_or_date", value_name="value")
Melt(tbl) ==
    [cols |-> <<T_PROVIDER, T_metric_or_date, T_value>>,
     rows |-> MeltRows(tbl,
                 SelectSeq2(tbl.cols, {j \in 1..Len(tbl.cols) : tbl.cols[j] # T_PROVIDER}, 1),
                 1)]

\* prov_col of fetch_ambulance_handover_timeseries
AmbProvCol(cols) ==
    LET s == Scan(cols, {j \in 1..Len(cols) : IsProviderNotCode(cols[j])})
    IN  IF s.kind = "none" THEN Scan(cols, {j \in 1..Len(cols) : IsOrganisation(cols[j])}) ELSE s

\* fetch_ambulance_handover_timeseries from the sheet read on
AmbPipeline(df, providers) ==
    LET pc == AmbProvCol(df.cols)
    IN  IF pc.kind = "raise" THEN Raised("AttributeError", "")
        ELSE IF pc.kind = "none" THEN Raised("ValueError", MsgAmb)
        ELSE LET norm == WithProvider(df, pc.col)
                 filt == PeerFilter(norm, providers, PeerMask(norm, providers, FALSE))
                 tc == ScanAll(filt.cols, {j \in 1..Len(filt.cols) : IsTimeCol(filt.cols[j])})
             IN  IF tc.kind = "raise" THEN Raised("AttributeError", "")
                 ELSE Returned(pc.col, norm, filt,
                               IF tc.cols # <<>> THEN Melt(filt) ELSE filt)

\* fetch_acute_discharge_timeseries from the sheet read on
AcutePipeline(df, providers) ==
    LET pc == Scan(df.cols, {j \in 1..Len(df.cols) : IsProviderNotCode(df.cols[j])})
    IN  IF pc.kind = "raise" THEN Raised("AttributeError", "")
        ELSE IF pc.kind = "none" THEN Raised("ValueError", MsgAcute)
        ELSE LET norm == WithProvider(df, pc.col)
                 filt == PeerFilter(norm, providers, PeerMask(norm, providers, FALSE))
             IN  Returned(pc.col, norm, filt, filt)

(***************************************************************************)
(* The cache store and the network                                         *)
(***************************************************************************)
\* AEM_MONTH_FILES: (label, csv_url), with the label also as text
AEM_MONTH_FILES ==
    << [label |-> "2025-03", text |-> <<"2","0","2","5","-","0","3">>,
        url |-> "https://www.england.nhs.uk/statistics/wp-content/uploads/sites/2/2025/04/A-E-Monthly-March-2025.csv"],
       [label |-> "2025-02", text |-> <<"2","0","2","5","-","0","2">>,
        url |-> "https://www.england.nhs.uk/statistics/wp-content/uploads/sites/2/2025/05/A-E-Monthly-February-2025-1.csv"],
       [label |-> "2025-01", text |-> <<"2","0","2","5","-","0","1">>,
        url |-> "https://www.england.nhs.uk/statistics/wp-content/uploads/sites/2/2025/02/A-E-Monthly-January-2025.csv"],
       [label |-> "2024-12", text |-> <<"2","0","2","4","-","1","2">>,
        url |-> "https://www.england.nhs.uk/statistics/wp-content/uploads/sites/2/2025/01/A-E-Monthly-December-2024.csv"] >>

AMB_HANDOVER_URL ==
    "https://www.england.nhs.uk/statistics/wp-content/uploads/sites/2/2025/03/Web-File-Timeseries-Ambulance-Collection.xlsx"

ACUTE_DISCHARGE_URL ==
    "https://www.england.nhs.uk/statistics/wp-content/uploads/sites/2/2025/03/Web-File-Timeseries-Acute-Discharge-SitRep.xlsx"

KH03_Q4_2024_25_CSV ==
    "https://www.england.nhs.uk/statistics/wp-content/uploads/sites/2/2025/06/KH03-Q4-2024-25-data-CSV.csv"

\* the lookup dict of fetch_rtt_full_csv
RttLookup ==
    [m \in {"2025-03", "2025-02", "2025-01", "2024-12"} |->
        CASE m = "2025-03" -> "https://www.england.nhs.uk/statistics/wp-content/uploads/sites/2/2025/07/rtt-full-csv-Mar25.zip"
          [] m = "2025-02" -> "https://www.england.nhs.uk/statistics/wp-content/uploads/sites/2/2025/07/rtt-full-csv-Feb25.zip"
          [] m = "2025-01" -> "https://www.england.nhs.uk/statistics/wp-content/uploads/sites/2/2025/02/rtt-full-csv-Jan25.zip"
          [] m = "2024-12" -> "https://www.england.nhs.uk/statistics/wp-content/uploads/sites/2/2025/01/rtt-full-csv-Dec24.zip"]

\* _cache_path(name): the file names the fetchers build
AeKey(label) == <<"ae_", label, ".csv">>

RttKey(month) == <<"rtt_", month, ".zip">>

AmbKey == <<"amb_handover", "", ".xlsx">>

AcuteKey == <<"acute_discharge", "", ".xlsx">>

Kh03Key == <<"kh03_q4_2024_25", "", ".csv">>

CacheKeys ==
    {AeKey(AEM_MONTH_FILES[i].label) : i \in 1..Len(AEM_MONTH_FILES)}
        \cup {RttKey(m) : m \in DOMAIN RttLookup}
        \cup {AmbKey, AcuteKey, Kh03Key}

\* CACHE_DIR after os.makedirs: a directory with no file in it
EmptyCache == [k \in CacheKeys |-> [exists |-> FALSE, bytes |-> <<>>]]

\* os.path.exists(cache)
Exists(cache, key) == cache[key].exists

\* open(cache, "wb") without the f.write(b): the file is created and left empty
WriteFileEmpty(cache, key, b) == [cache EXCEPT ![key] = [exists |-> TRUE, bytes |-> <<>>]]

\* a whole file written: open(cache, "wb") and f.write(b), or df.to_csv(cache)
WriteFile(cache, key, b) == [cache EXCEPT ![key] = [exists |-> TRUE, bytes |-> b]]

(***************************************************************************)
(* The server.  A GET of a URL either fails (a network exception or a      *)
(* status that raise_for_status rejects) or answers 200 with a body.       *)
(* Revision 0 of a URL is an error page served with status 200; the        *)
(* revisions from 1 on are data files, which differ from one another.      *)
(***************************************************************************)
T_html == <<"<","h","t","m","l",">">>
T_Total_Attendances == <<"T","o","t","a","l"," ","A","t","t","e","n","d","a","n","c","e","s">>
T_Provider_Code == <<"P","r","o","v","i","d","e","r"," ","C","o","d","e">>
T_Org_Code == <<"O","r","g"," ","C","o","d","e">>
T_Arrivals == <<"A","r","r","i","v","a","l","s">>
T_NCTR == <<"N","C","T","R">>
T_Beds == <<"B","e","d","s">>
T_Notes == <<"N","o","t","e","s">>
T_Provider_data == <<"P","r","o","v","i","d","e","r"," ","d","a","t","a">>
T_notes_txt == <<"n","o","t","e","s",".","t","x","t">>
T_rtt_provider_csv == <<"r","t","t","-","p","r","o","v","i","d","e","r",".","c","s","v">>

ErrorPageCsv == << <<T_html>> >>

ErrorPageBin == <<[tag |-> "html", name |-> T_html, n |-> 0, data |-> <<>>]>>

AeBody(i, v) ==
    IF v = 0 THEN ErrorPageCsv
    ELSE << <<T_Provider_Name, T_Total_Attendances>>,
            << <<"a","b">>, <<"0", Digits[v + 1]>> >>,
            << <<"C","d">>, <<Digits[i + 1]>> >> >>

\* a response with status 200 and nothing in it
EmptyBody == <<>>

\* at revision 0 the A&E URLs answer with an error page, which pd.read_csv
\* reads as a table of one column, and the KH03 URL with an empty body,
\* which it does not read
Kh03Body(v) ==
    IF v = 0 THEN EmptyBody
    ELSE << <<T_Org_Code, T_Beds>>, << <<"R","1">>, <<"0", Digits[v + 1]>> >> >>

NotesSheet == [cols |-> <<T_Notes>>, rows |-> << <<StrVal(<<"n">>)>> >>]

SheetBody(valueCol, v) ==
    [cols |-> <<T_Provider_Code, T_Provider_Name, valueCol>>,
     rows |-> << <<StrVal(<<"R","1">>), StrVal(<<"a","b">>), IntVal(<<Digits[v + 1]>>)>>,
                 <<StrVal(<<"R","2">>), StrVal(<<"C","d">>), IntVal(<<"5">>)>> >>]

\* a workbook: odd revisions carry a notes sheet before the data sheet
XlsxBody(valueCol, v) ==
    IF v = 0 THEN ErrorPageBin
    ELSE IF v % 2 = 1
    THEN Container(<<[name |-> T_Notes, data |-> NotesSheet],
                     [name |-> T_Provider_data, data |-> SheetBody(valueCol, v)]>>)
    ELSE Container(<<[name |-> T_Provider_data, data |-> SheetBody(valueCol, v)]>>)

RttCsv(m, v) ==
    << <<T_Provider_Code, T_Total_Attendances>>,
       << <<"R","1">>, <<"0", Digits[v + 1]>> >>,
       << <<"R","2">>, <<Digits[m + 1]>> >> >>

\* an archive: odd revisions carry a notes member before the provider file
RttBody(m, v) ==
    IF v = 0 THEN ErrorPageBin
    ELSE IF v % 2 = 1
    THEN Container(<<[name |-> T_notes_txt, data |-> << <<T_Notes>> >>],
                     [name |-> T_rtt_provider_csv, data |-> RttCsv(m, v)]>>)
    ELSE Container(<<[name |-> T_rtt_provider_csv, data |-> RttCsv(m, v)]>>)

RttMonthIndex(month) ==
    CASE month = "2025-03" -> 1 [] month = "2025-02" -> 2
      [] month = "2025-01" -> 3 [] month = "2024-12" -> 4

\* r.content of a successful GET of url, the server being at revision v
ServerBody(url, v) ==
    IF \E i \in 1..Len(AEM_MONTH_FILES) : AEM_MONTH_FILES[i].url = url
    THEN AeBody(CHOOSE i \in 1..Len(AEM_MONTH_FILES) : AEM_MONTH_FILES[i].url = url, v)
    ELSE IF url = AMB_HANDOVER_URL THEN XlsxBody(T_Arrivals, v)
    ELSE IF url = ACUTE_DISCHARGE_URL THEN XlsxBody(T_NCTR, v)
    ELSE IF url = KH03_Q4_2024_25_CSV THEN Kh03Body(v)
    ELSE RttBody(RttMonthIndex(CHOOSE m \in DOMAIN RttLookup : RttLookup[m] = url), v)

\* _download(url) with one retry: a GET that fails is issued a second time
DownloadWithRetry(url, net, k) ==
    IF net.failAt = k + 1
    THEN [ok |-> FALSE, body |-> <<>>, gets |-> <<url, url>>]
    ELSE [ok |-> TRUE, body |-> ServerBody(url, net.v), gets |-> <<url>>]

\* _download(url): one GET; k GETs were issued before it in this invocation,
\* and the GET numbered net.failAt fails
Download(url, net, k) ==
    IF net.failAt = k + 1
    THEN [ok |-> FALSE, body |-> <<>>, gets |-> <<url>>]
    ELSE [ok |-> TRUE, body |-> ServerBody(url, net.v), gets |-> <<url>>]

(***************************************************************************)
(* The fetchers.  Each yields the cache store it leaves, the GETs it       *)
(* issued (reqs), the keys it wrote (writes), the URL whose download       *)
(* failed, if any (failed), and its outcome (out).                         *)
(***************************************************************************)
Fetched(cache, reqs, writes, failed, out) ==
    [cache |-> cache, reqs |-> reqs, writes |-> writes, failed |-> failed, out |-> out]

\* df["period"] = label
WithPeriod(tbl, text) ==
    SetColumn(tbl, T_period, [n \in 1..Len(tbl.rows) |-> StrVal(text)])

RECURSIVE AeLoop(_, _, _, _, _, _)
\* the loop over AEM_MONTH_FILES, from month i on
AeLoop(i, cache, reqs, writes, frames, net) ==
    IF i > Len(AEM_MONTH_FILES)
    THEN [ok |-> TRUE, err |-> "", cache |-> cache, reqs |-> reqs, writes |-> writes,
          failed |-> "", frames |-> frames]
    ELSE
    LET f == AEM_MONTH_FILES[i]
        key == AeKey(f.label)
    IN  IF Exists(cache, key)
        THEN LET r == ReadCsv(cache[key].bytes)
             IN  IF ~r.ok
                 THEN [ok |-> FALSE, err |-> "EmptyDataError", cache |-> cache,
                       reqs |-> reqs, writes |-> writes, failed |-> "", frames |-> frames]
                 ELSE AeLoop(i + 1, cache, reqs, writes,
                             Append(frames, WithPeriod(r.tbl, f.text)), net)
        ELSE LET d == Download(f.url, net, Len(reqs))
                 r == ReadCsv(d.body)
             IN  IF ~d.ok
                 THEN [ok |-> FALSE, err |-> "RequestException", cache |-> cache,
                       reqs |-> reqs \o d.gets, writes |-> writes, failed |-> f.url,
                       frames |-> frames]
                 ELSE IF ~r.ok
                 THEN [ok |-> FALSE, err |-> "EmptyDataError", cache |-> cache,
                       reqs |-> reqs \o d.gets, writes |-> writes, failed |-> "",
                       frames |-> frames]
                 ELSE AeLoop(i + 1, WriteFile(cache, key, ToCsv(r.tbl)),
                             reqs \o d.gets, Append(writes, key),
                             Append(frames, WithPeriod(r.tbl, f.text)), net)

fetch_ae_monthly_provider(cache, providers, net) ==
    LET l == AeLoop(1, cache, <<>>, <<>>, <<>>, net)
    IN  Fetched(l.cache, l.reqs, l.writes, l.failed,
                IF l.ok THEN AePipeline(l.frames, providers) ELSE Raised(l.err, ""))

\* pd.read_excel(io.BytesIO(b), sheet_name=sheet): the cells of the sheet,
\* each column brought to one dtype as in Concat
ReadExcel(sheet) ==
    [cols |-> sheet.cols,
     rows |-> [r \in 1..Len(sheet.rows) |->
                 [j \in 1..Len(sheet.cols) |-> Upcast(sheet.rows, j, sheet.rows[r][j])]]]

\* what pd.ExcelFile(io.BytesIO(b)) raises on bytes that are no workbook:
\* ValueError when they do not start as a ZIP file (the format cannot be
\* determined), BadZipFile when they do
ExcelFileError(b) ==
    IF b # <<>> /\ b[1].tag = "sig" THEN "BadZipFile" ELSE "ValueError"

\* the sheet read by the two time-series fetchers: the first sheet whose
\* name contains "provider", else the first sheet
PickSheet(sheets) ==
    IF \E i \in 1..Len(sheets) : Contains(Lower(sheets[i].name), T_provider)
    THEN sheets[CHOOSE i \in 1..Len(sheets) :
                  /\ Contains(Lower(sheets[i].name), T_provider)
                  /\ \A h \in 1..(i - 1) : ~Contains(Lower(sheets[h].name), T_provider)].data
    ELSE sheets[1].data

\* CachedBytes with the bytes looked at before they are written: a download
\* that is no workbook or archive is not stored
CachedBytesIfValid(cache, key, url, net) ==
    IF Exists(cache, key)
    THEN [ok |-> TRUE, b |-> cache[key].bytes, cache |-> cache, reqs |-> <<>>,
          writes |-> <<>>, failed |-> ""]
    ELSE LET d == Download(url, net, 0)
         IN  IF ~d.ok
             THEN [ok |-> FALSE, b |-> <<>>, cache |-> cache, reqs |-> d.gets,
                   writes |-> <<>>, failed |-> url]
             ELSE IF ~IsContainer(d.body)
             THEN [ok |-> TRUE, b |-> d.body, cache |-> cache, reqs |-> d.gets,
                   writes |-> <<>>, failed |-> ""]
             ELSE [ok |-> TRUE, b |-> d.body, cache |-> WriteFile(cache, key, d.body),
                   reqs |-> d.gets, writes |-> <<key>>, failed |-> ""]

\* the bytes b of a time-series fetcher: read from the cache, or downloaded
\* and written to it
CachedBytesAlways(cache, key, url, net) ==
    LET d == Download(url, net, 0)
    IN  IF ~d.ok
        THEN [ok |-> FALSE, b |-> <<>>, cache |-> cache, reqs |-> d.gets,
              writes |-> <<>>, failed |-> url]
        ELSE [ok |-> TRUE, b |-> d.body, cache |-> WriteFile(cache, key, d.body),
              reqs |-> d.gets, writes |-> <<key>>, failed |-> ""]

CachedBytes(cache, key, url, net) ==
    IF Exists(cache, key)
    THEN [ok |-> TRUE, b |-> cache[key].bytes, cache |-> cache, reqs |-> <<>>,
          writes |-> <<>>, failed |-> ""]
    ELSE LET d == Download(url, net, 0)
         IN  IF ~d.ok
             THEN [ok |-> FALSE, b |-> <<>>, cache |-> cache, reqs |-> d.gets,
                   writes |-> <<>>, failed |-> url]
             ELSE [ok |-> TRUE, b |-> d.body, cache |-> WriteFile(cache, key, d.body),
                   reqs |-> d.gets, writes |-> <<key>>, failed |-> ""]

fetch_ambulance_handover_timeseries(cache, providers, net) ==
    LET c == CachedBytes(cache, AmbKey, AMB_HANDOVER_URL, net)
    IN  Fetched(c.cache, c.reqs, c.writes, c.failed,
                IF ~c.ok THEN Raised("RequestException", "")
                ELSE IF ~IsContainer(c.b) THEN Raised(ExcelFileError(c.b), "")
                ELSE AmbPipeline(ReadExcel(PickSheet(Entries(c.b))), providers))

fetch_acute_discharge_timeseries(cache, providers, net) ==
    LET c == CachedBytes(cache, AcuteKey, ACUTE_DISCHARGE_URL, net)
    IN  Fetched(c.cache, c.reqs, c.writes, c.failed,
                IF ~c.ok THEN Raised("RequestException", "")
                ELSE IF ~IsContainer(c.b) THEN Raised(ExcelFileError(c.b), "")
                ELSE AcutePipeline(ReadExcel(PickSheet(Entries(c.b))), providers))

IsProviderCsv(name) == Contains(Lower(name), T_provider) /\ EndsWith(Lower(name), T_dot_csv)

\* the archive member read by fetch_rtt_full_csv and its parse
RttParse(b) ==
    IF ~IsContainer(b) THEN Raised("BadZipFile", "")
    ELSE LET ms == Entries(b)
             hits == {i \in 1..Len(ms) : IsProviderCsv(ms[i].name)}
         IN  IF ms = <<>> THEN Raised("IndexError", "")
             ELSE LET m == IF hits = {} THEN ms[1]
                           ELSE ms[CHOOSE i \in hits : \A h \in hits : i <= h]
                      r == ReadCsv(m.data)
                  IN  IF ~r.ok THEN Raised("EmptyDataError", "")
                      ELSE Returned(<<>>, r.tbl, r.tbl, r.tbl)

\* fetch_rtt_full_csv without the lookup test: an unlisted month is fetched
\* from the URL of the newest listed month
fetch_rtt_any_month(cache, month_label, net) ==
    LET m == IF month_label \in DOMAIN RttLookup THEN month_label ELSE "2025-03"
        c == CachedBytes(cache, RttKey(m), RttLookup[m], net)
    IN  Fetched(c.cache, c.reqs, c.writes, c.failed,
                IF ~c.ok THEN Raised("RequestException", "") ELSE RttParse(c.b))

fetch_rtt_full_csv(cache, month_label, net) ==
    IF month_label \notin DOMAIN RttLookup
    THEN Fetched(cache, <<>>, <<>>, "", Raised("ValueError", MsgMonth))
    ELSE LET c == CachedBytes(cache, RttKey(month_label), RttLookup[month_label], net)
         IN  Fetched(c.cache, c.reqs, c.writes, c.failed,
                     IF ~c.ok THEN Raised("RequestException", "") ELSE RttParse(c.b))

fetch_kh03_latest(cache, net) ==
    IF Exists(cache, Kh03Key)
    THEN LET r == ReadCsv(cache[Kh03Key].bytes)
         IN  Fetched(cache, <<>>, <<>>, "",
                     IF r.ok THEN Returned(<<>>, r.tbl, r.tbl, r.tbl)
                     ELSE Raised("EmptyDataError", ""))
    ELSE LET d == Download(KH03_Q4_2024_25_CSV, net, 0)
             r == ReadCsv(d.body)
         IN  IF ~d.ok
             THEN Fetched(cache, d.gets, <<>>, KH03_Q4_2024_25_CSV,
                          Raised("RequestException", ""))
             ELSE IF ~r.ok THEN Fetched(cache, d.gets, <<>>, "", Raised("EmptyDataError", ""))
             ELSE Fetched(WriteFile(cache, Kh03Key, ToCsv(r.tbl)), d.gets, <<Kh03Key>>, "",
                          Returned(<<>>, r.tbl, r.tbl, r.tbl))

(***************************************************************************)
(* State.  One cache store; the library's callers; the dashboard; and the  *)
(* inputs and outputs of the table pipelines.                              *)
(***************************************************************************)
VARIABLES
    cache,      \* the cache store: key -> [exists, bytes]
    wrote,      \* key -> how many times the key was written
    last,       \* the latest invocation: its call, its GETs and its outcome
    first,      \* call -> the table its first successful invocation returned
    calls,      \* the number of invocations so far
    peers_text, \* the dashboard's "Peers" text input
    ui,         \* what the Benchmarking tab displays after the latest click
    alive,      \* FALSE once an exception has escaped the script
    tin,        \* a file's content and a PeerSet handed to a pipeline
    tout,       \* what the pipeline made of them
    rin,        \* a time series handed to rolling_12_week_average
    rout,       \* the frame it returned
    thr         \* two fetches running at once: each one's position and locals

vars == <<cache, wrote, last, first, calls, peers_text, ui, alive, tin, tout,
          rin, rout, thr>>

libVars == <<cache, wrote, last, first, calls>>

dashVars == <<peers_text, ui, alive>>

tableVars == <<tin, tout>>

rollVars == <<rin, rout>>

\* what the callers of the library leave alone
apartVars == <<peers_text, ui, alive, tin, tout, rin, rout, thr>>

MaxCalls == 2

Revisions == 0..2

\* peers.providers as callers pass them
PeerChoices == { <<>>, << <<"A","b">> >>, << <<"x">> >> }

MonthChoices == DOMAIN RttLookup \cup {"2099-01"}

TheCall(op, month, providers) == [op |-> op, month |-> month, providers |-> providers]

NoCall == TheCall("", "", <<>>)

\* the server's revision and the GET that fails (0: none), per invocation
Nets(maxGets) == [v : Revisions, failAt : 0..maxGets]

Count(seq, e) == Cardinality({i \in 1..Len(seq) : seq[i] = e})

\* the state after an invocation that did r
Invoked(call, r) ==
    /\ calls < MaxCalls
    /\ calls' = calls + 1
    /\ cache' = r.cache
    /\ wrote' = [k \in CacheKeys |-> wrote[k] + Count(r.writes, k)]
    /\ last' = [call |-> call, reqs |-> r.reqs, failed |-> r.failed,
                ok |-> r.out.ok, err |-> r.out.err, msg |-> r.out.msg,
                result |-> r.out.result]
    /\ first' = IF r.out.ok /\ (call \notin DOMAIN first)
                THEN [c \in DOMAIN first \cup {call} |->
                        IF c = call THEN r.out.result ELSE first[c]]
                ELSE first

FetchAE ==
    /\ \E p \in PeerChoices, net \in Nets(Len(AEM_MONTH_FILES)) :
        Invoked(TheCall("ae", "", p), fetch_ae_monthly_provider(cache, p, net))
    /\ UNCHANGED apartVars

FetchAmb ==
    /\ \E p \in PeerChoices, net \in Nets(1) :
        Invoked(TheCall("amb", "", p), fetch_ambulance_handover_timeseries(cache, p, net))
    /\ UNCHANGED apartVars

FetchAcute ==
    /\ \E p \in PeerChoices, net \in Nets(1) :
        Invoked(TheCall("acute", "", p), fetch_acute_discharge_timeseries(cache, p, net))
    /\ UNCHANGED apartVars

FetchRtt ==
    /\ \E m \in MonthChoices, net \in Nets(1) :
        Invoked(TheCall("rtt", m, <<>>), fetch_rtt_full_csv(cache, m, net))
    /\ UNCHANGED apartVars

FetchKh03 ==
    /\ \E net \in Nets(1) :
        Invoked(TheCall("kh03", "", <<>>), fetch_kh03_latest(cache, net))
    /\ UNCHANGED apartVars

NoInvocation ==
    [call |-> NoCall, reqs |-> <<>>, failed |-> "", ok |-> FALSE,
     err |-> "", msg |-> "", result |-> EmptyTable]

NoDisplay == [kind |-> "none", text |-> "", rows |-> 0, cols |-> <<>>]

\* the value of the "Peers" text input when the page is first drawn
DefaultPeersText == 
    <<"P","o","r","t","s","m","o","u","t","h",","," ","U","n","i","v","e","r","s","i","t","y"," ","H","o","s","p","i","t","a","l","s"," ","S">>
        \o <<"u","s","s","e","x",","," ","U","n","i","v","e","r","s","i","t","y"," ","H","o","s","p","i","t","a","l","s"," ","D","o","r","s","e","t">>

NoTableRun == [done |-> FALSE, out |-> Raised("", "")]

LibInit ==
    /\ cache = EmptyCache
    /\ wrote = [k \in CacheKeys |-> 0]
    /\ last = NoInvocation
    /\ first = << >>
    /\ calls = 0

DashInit ==
    /\ peers_text = DefaultPeersText
    /\ ui = NoDisplay
    /\ alive = TRUE

TableIdle ==
    /\ tin = [op |-> "", grid |-> <<>>, other |-> <<>>, providers |-> <<>>]
    /\ tout = NoTableRun

NoRollRun == [done |-> FALSE, x |-> <<>>]

RollIdle ==
    /\ rin = <<>>
    /\ rout = NoRollRun

NoThread == [pc |-> "idle", saw |-> FALSE, got |-> FALSE, b |-> <<>>, ok |-> FALSE, err |-> ""]

ConcIdle == thr = [op |-> "", t |-> <<NoThread, NoThread>>]

Init == LibInit /\ DashInit /\ TableIdle /\ RollIdle /\ ConcIdle

Next == FetchAE \/ FetchAmb \/ FetchAcute \/ FetchRtt \/ FetchKh03

Spec == Init /\ [][Next]_vars

(***************************************************************************)
(* The Benchmarking tab.  A click reruns the script; the clicked button's  *)
(* branch calls the fetcher inside try/except and displays the outcome.    *)
(***************************************************************************)
RECURSIVE Split(_, _)
\* text.split(sep): the pieces between the separators, empty ones included
Split(text, sep) ==
    IF \E i \in 1..Len(text) : text[i] = sep
    THEN LET i == CHOOSE i \in 1..Len(text) :
                    text[i] = sep /\ \A h \in 1..(i - 1) : text[h] # sep
         IN  <<SubSeq(text, 1, i - 1)>> \o Split(SubSeq(text, i + 1, Len(text)), sep)
    ELSE <<text>>

\* peers = [p.strip() for p in peers_text.split(",") if p.strip()]
ParsePeers(text) ==
    LET pieces == Split(text, ",")
        kept == SelectSeq2(pieces, {i \in 1..Len(pieces) : Strip(pieces[i]) # <<>>}, 1)
    IN  [i \in 1..Len(kept) |-> Strip(kept[i])]

\* the classes of the exceptions the fetchers raise
ExceptionClasses ==
    {"ValueError", "RequestException", "BadZipFile", "EmptyDataError",
     "IndexError", "AttributeError"}

\* except ValueError as e
CatchesValueError(err) == err = "ValueError"

\* except Exception as e
Catches(err) == err \in ExceptionClasses

\* str(e)
ErrText(err, msg) == IF msg # "" THEN msg ELSE err

RttShown == {<<"p","r","o","v","i","d","e","r">>, <<"i","n","c","o","m","p","l","e","t","e">>,
             <<"5","2">>, <<"6","5">>, <<"7","8">>, <<"w","a","i","t">>}

\* keep = [c for c in df.columns if any(k in c.lower() for k in [...])]
RttKeep(cols) ==
    SelectSeq2(cols, {j \in 1..Len(cols) : \E k \in RttShown : Contains(Lower(cols[j]), k)}, 1)

\* the body of a button's branch, the fetcher having done r and the table
\* shown having the columns shown
Clicked(call, r, shown) ==
    /\ alive
    /\ Invoked(call, r)
    /\ IF r.out.ok
       THEN /\ ui' = [kind |-> "success", text |-> "Fetched",
                      rows |-> Len(r.out.result.rows), cols |-> shown]
            /\ alive' = TRUE
       ELSE IF Catches(r.out.err)
       THEN /\ ui' = [kind |-> "error", text |-> ErrText(r.out.err, r.out.msg),
                      rows |-> 0, cols |-> <<>>]
            /\ alive' = TRUE
       ELSE /\ ui' = ui
            /\ alive' = FALSE
    /\ UNCHANGED <<peers_text, tableVars, rollVars, thr>>

ClickAE ==
    \E net \in Nets(Len(AEM_MONTH_FILES)) :
        LET r == fetch_ae_monthly_provider(cache, ParsePeers(peers_text), net)
        IN  Clicked(TheCall("ae", "", ParsePeers(peers_text)), r, r.out.result.cols)

ClickAmb ==
    \E net \in Nets(1) :
        LET r == fetch_ambulance_handover_timeseries(cache, ParsePeers(peers_text), net)
        IN  Clicked(TheCall("amb", "", ParsePeers(peers_text)), r, r.out.result.cols)

ClickAcute ==
    \E net \in Nets(1) :
        LET r == fetch_acute_discharge_timeseries(cache, ParsePeers(peers_text), net)
        IN  Clicked(TheCall("acute", "", ParsePeers(peers_text)), r, r.out.result.cols)

\* st.selectbox("RTT month", [...])
RttMonthOptions == {"2025-03", "2025-02", "2025-01", "2024-12"}

ClickRtt ==
    \E m \in RttMonthOptions, net \in Nets(1) :
        LET r == fetch_rtt_full_csv(cache, m, net)
        IN  Clicked(TheCall("rtt", m, <<>>), r, RttKeep(r.out.result.cols))

ClickKh03 ==
    \E net \in Nets(1) :
        LET r == fetch_kh03_latest(cache, net)
        IN  Clicked(TheCall("kh03", "", <<>>), r, r.out.result.cols)

\* what a user types into the "Peers" text input
PeersTexts == { DefaultPeersText, <<" ",",","A","b"," ">> }

TypePeers ==
    /\ alive
    /\ \E t \in PeersTexts : t # peers_text /\ peers_text' = t
    /\ UNCHANGED <<libVars, ui, alive, tableVars, rollVars, thr>>

NextDash == ClickAE \/ ClickAmb \/ ClickAcute \/ ClickRtt \/ ClickKh03 \/ TypePeers

SpecDash == Init /\ [][NextDash]_vars

(***************************************************************************)
(* The table pipelines on their own: a file's content and a PeerSet are    *)
(* drawn from bounded sets, and the fetcher's code from the parse on is    *)
(* applied to them.                                                        *)
(***************************************************************************)
MaxRows == 2

T_Organisation == <<"O","r","g","a","n","i","s","a","t","i","o","n">>
T_Organisation_Name ==
    <<"O","r","g","a","n","i","s","a","t","i","o","n"," ","N","a","m","e">>
T_Region == <<"R","e","g","i","o","n">>
T_Week_Ending == <<"W","e","e","k"," ","E","n","d","i","n","g">>

\* headers of CSV files
CsvLayouts ==
    { <<T_Provider_Name, T_Total_Attendances>>,
      <<T_Provider_Code, T_Provider_Name, T_Total_Attendances>>,
      <<T_Org_Code, T_Organisation_Name, T_Week_Ending>>,
      <<T_Region, T_Total_Attendances>>,
      <<T_Organisation, T_Arrivals>> }

\* header rows of sheets: a header cell may hold a date
SheetLayouts ==
    CsvLayouts \cup
    { <<DateLabel, T_Provider_Name>>, <<T_Provider_Name, DateLabel>>,
      <<DateLabel, T_Region>> }

\* what the identity cell of a row holds, as written in the file
ProvTexts == { <<"a","b">>, <<"A"," ","b">>, <<"x","y">>, <<>>, <<"0","7">> }

IdentityLabels ==
    {T_Provider_Name, T_Provider_Code, T_Org_Code, T_Organisation_Name, T_Organisation}

\* the text of the cell under label in a row whose identity is pv
RawCell(label, pv) ==
    IF label \in IdentityLabels THEN pv
    ELSE IF label = T_Region THEN <<"s">>
    ELSE <<"5">>

\* a file's grid: the header and one line per identity
Grid(layout, pvs) ==
    <<layout>> \o [r \in 1..Len(pvs) |-> [j \in 1..Len(layout) |-> RawCell(layout[j], pvs[r])]]

\* a cell of a sheet has a type of its own
ExcelCell(raw) ==
    IF raw = <<>> THEN NaN ELSE IF IsIntText(raw) THEN IntVal(raw) ELSE StrVal(raw)

SheetOf(grid) ==
    [cols |-> grid[1],
     rows |-> [r \in 1..(Len(grid) - 1) |->
                 [j \in 1..Len(grid[1]) |-> ExcelCell(grid[r + 1][j])]]]

Tokens == { <<"a","b">>, <<"A">>, <<" ","a">>, <<".">>, <<"n">>, <<"q">>, <<>> }

PeerSets ==
    {<<>>} \cup {<<t>> : t \in Tokens}
        \cup {<<t, u>> : t \in {<<"q">>, <<"x">>}, u \in {<<"A">>, <<"q">>}}

Identities == UNION {[1..n -> ProvTexts] : n \in 0..MaxRows}

\* the files of the other months of the A&E loop
TableInputs ==
    {[op |-> "ae", grid |-> Grid(l, pvs), other |-> o, providers |-> p] :
        l \in CsvLayouts, pvs \in Identities, o \in {1, 2}, p \in PeerSets}
    \cup
    {[op |-> op, grid |-> Grid(l, pvs), other |-> 0, providers |-> p] :
        op \in {"amb", "acute"}, l \in SheetLayouts, pvs \in Identities, p \in PeerSets}

\* the frames of the A&E loop: the first month's file is tin.grid
AeFrames(grid, other) ==
    [i \in 1..Len(AEM_MONTH_FILES) |->
        WithPeriod(ReadCsv(IF i = 1 THEN grid
                           ELSE IF other = 1 THEN <<grid[1]>>
                           ELSE <<<<T_Organisation, T_Arrivals>>, <<<<"x","y">>, <<"3">>>>>>).tbl,
                   AEM_MONTH_FILES[i].text)]

RunAePipeline ==
    /\ tin.op = "ae" /\ ~tout.done
    /\ tout' = [done |-> TRUE,
                out |-> AePipeline(AeFrames(tin.grid, tin.other), tin.providers)]
    /\ UNCHANGED <<libVars, dashVars, tin, rollVars, thr>>

RunAmbPipeline ==
    /\ tin.op = "amb" /\ ~tout.done
    /\ tout' = [done |-> TRUE,
                out |-> AmbPipeline(ReadExcel(SheetOf(tin.grid)), tin.providers)]
    /\ UNCHANGED <<libVars, dashVars, tin, rollVars, thr>>

RunAcutePipeline ==
    /\ tin.op = "acute" /\ ~tout.done
    /\ tout' = [done |-> TRUE,
                out |-> AcutePipeline(ReadExcel(SheetOf(tin.grid)), tin.providers)]
    /\ UNCHANGED <<libVars, dashVars, tin, rollVars, thr>>

InitTable ==
    /\ LibInit /\ DashInit /\ RollIdle /\ ConcIdle
    /\ tin \in TableInputs
    /\ tout = NoTableRun

NextTable == RunAePipeline \/ RunAmbPipeline \/ RunAcutePipeline

SpecTable == InitTable /\ [][NextTable]_vars

(***************************************************************************)
(* rolling_12_week_average.  A time series is a sequence of rows, each with *)
(* a group, a date cell and a value cell.  A date cell is the text of the  *)
(* week's ordinal, so the order of the texts ("9" after "10") is not the   *)
(* order of the dates; a value cell is a number or missing.                *)
(***************************************************************************)
Window == 12

MinPeriods == 4

MaxPeriods == 13

MaxOther == 4

DateText(n) ==
    IF n < 10 THEN <<Digits[n + 1]>>
    ELSE <<Digits[(n \div 10) + 1], Digits[(n % 10) + 1]>>

DigitValue(c) == (CHOOSE i \in 1..Len(Digits) : Digits[i] = c) - 1

\* pd.to_datetime on one cell
RECURSIVE to_datetime(_)
to_datetime(t) ==
    IF t = <<>> THEN 0
    ELSE 10 * to_datetime(SubSeq(t, 1, Len(t) - 1)) + DigitValue(t[Len(t)])

\* x[date_col] = pd.to_datetime(x[date_col])
ConvertDates(df) == [i \in 1..Len(df) |-> [df[i] EXCEPT !.d = to_datetime(@)]]

RECURSIVE InsertByDate(_, _)
InsertByDate(sorted, r) ==
    IF sorted = <<>> THEN <<r>>
    ELSE IF r.d < Head(sorted).d THEN <<r>> \o sorted
    ELSE <<Head(sorted)>> \o InsertByDate(Tail(sorted), r)

\* the frame with the result of sort_values thrown away
sort_values_discarded(x) == x

\* x.sort_values(date_col): ascending by date
RECURSIVE sort_values(_)
sort_values(x) ==
    IF x = <<>> THEN <<>>
    ELSE InsertByDate(sort_values(SubSeq(x, 1, Len(x) - 1)), x[Len(x)])

RECURSIVE SumValues(_, _)
SumValues(x, S) ==
    IF S = {} THEN 0
    ELSE LET i == CHOOSE j \in S : TRUE
         IN  x[i].v.n + SumValues(x, S \ {i})

NoAverage == [ok |-> FALSE, sum |-> 0, n |-> 0]

\* s.rolling(12, min_periods=4).mean() at row i of x, s being the values of
\* the rows of x in the group of row i: the mean, as sum and count, of the
\* observed values among the last 12 rows of the group up to row i, if there
\* are 4 of them
RollingMean(x, i) ==
    LET P == {j \in 1..i : x[j].g = x[i].g}
        W == {j \in P : Cardinality({k \in P : k > j}) < Window}
        O == {j \in W : x[j].v.obs}
    IN  IF Cardinality(O) >= MinPeriods
        THEN [ok |-> TRUE, sum |-> SumValues(x, O), n |-> Cardinality(O)]
        ELSE NoAverage

rolling_12_week_average(df) ==
    LET x == sort_values(ConvertDates(df))
    IN  [i \in 1..Len(x) |->
            [g |-> x[i].g, d |-> x[i].d, v |-> x[i].v, avg_12w |-> RollingMean(x, i)]]

Missing == [obs |-> FALSE, n |-> 0]

\* the value of week i of a series: missing every pat.miss weeks
Observation(pat, i) ==
    IF pat.miss # 0 /\ i % pat.miss = 0 THEN Missing
    ELSE [obs |-> TRUE, n |-> (i * pat.mult + pat.off) % 7]

\* n consecutive weeks of group g
Series(g, n, pat) ==
    [i \in 1..n |-> [g |-> g, d |-> DateText(i), v |-> Observation(pat, i)]]

Orders == {"asc", "desc", "rot", "weave"}

Arrange(order, x) ==
    LET n == Len(x)
        odd == {i \in 1..n : i % 2 = 1}
    IN  CASE order = "asc" -> x
          [] order = "desc" -> [i \in 1..n |-> x[n + 1 - i]]
          [] order = "rot" -> SubSeq(x, (n \div 2) + 1, n) \o SubSeq(x, 1, n \div 2)
          [] order = "weave" -> SelectSeq2(x, odd, 1) \o SelectSeq2(x, (1..n) \ odd, 1)

Patterns == [mult : {1, 3}, off : {0, 2}, miss : {0, 5}]

RollInputs ==
    { Arrange(o, Series("A", a, p) \o Series("B", b, [p EXCEPT !.off = @ + 1])) :
        o \in Orders, a \in 0..MaxPeriods, b \in 0..MaxOther, p \in Patterns }

RollAverage ==
    /\ ~rout.done
    /\ rout' = [done |-> TRUE, x |-> rolling_12_week_average(rin)]
    /\ UNCHANGED <<libVars, dashVars, tableVars, rin, thr>>

InitRoll ==
    /\ LibInit /\ DashInit /\ TableIdle /\ ConcIdle
    /\ rin \in RollInputs
    /\ rout = NoRollRun

NextRoll == RollAverage

SpecRoll == InitRoll /\ [][NextRoll]_vars

(***************************************************************************)
(* Two fetches of one dataset running at once over one cache directory,    *)
(* the file not yet cached.  Each runs the fetcher's statements in order:  *)
(* os.path.exists, _download, open(cache, "wb"), f.write(b), and the parse *)
(* of its own b; or, the file found, open(cache, "rb") and f.read().       *)
(***************************************************************************)
Threads == {1, 2}

ConcOps == {"acute", "rtt"}

ConcMonth == "2025-03"

ConcKey == IF thr.op = "acute" THEN AcuteKey ELSE RttKey(ConcMonth)

ConcUrl == IF thr.op = "acute" THEN ACUTE_DISCHARGE_URL ELSE RttLookup[ConcMonth]

\* what the fetcher makes of its bytes
ConcParsed(b) ==
    IF thr.op = "rtt" THEN RttParse(b)
    ELSE IF ~IsContainer(b) THEN Raised(ExcelFileError(b), "")
    ELSE AcutePipeline(ReadExcel(PickSheet(Entries(b))), <<>>)

Step(t, rec) ==
    /\ thr' = [thr EXCEPT !.t[t] = rec]
    /\ UNCHANGED <<wrote, last, first, calls, dashVars, tableVars, rollVars>>

\* if not os.path.exists(cache)
ConcCheck(t) ==
    /\ thr.t[t].pc = "check"
    /\ Step(t, [thr.t[t] EXCEPT !.saw = Exists(cache, ConcKey),
                                !.pc = IF Exists(cache, ConcKey) THEN "read" ELSE "get"])
    /\ UNCHANGED cache

\* with open(cache, "rb") as f: b = f.read()
ConcRead(t) ==
    /\ thr.t[t].pc = "read"
    /\ Step(t, [thr.t[t] EXCEPT !.b = cache[ConcKey].bytes, !.pc = "parse"])
    /\ UNCHANGED cache

\* b = _download(url)
ConcGet(t) ==
    /\ thr.t[t].pc = "get"
    /\ \E net \in Nets(1) :
        LET d == Download(ConcUrl, net, 0)
        IN  IF d.ok
            THEN Step(t, [thr.t[t] EXCEPT !.b = d.body, !.got = TRUE, !.pc = "open"])
            ELSE Step(t, [thr.t[t] EXCEPT !.err = "RequestException", !.pc = "done"])
    /\ UNCHANGED cache

\* open(cache, "wb"): the file is created or truncated
ConcOpen(t) ==
    /\ thr.t[t].pc = "open"
    /\ cache' = WriteFile(cache, ConcKey, <<>>)
    /\ Step(t, [thr.t[t] EXCEPT !.pc = "write"])

\* f.write(b), from this handle's offset 0, and the close
ConcWrite(t) ==
    /\ thr.t[t].pc = "write"
    /\ cache' = [cache EXCEPT ![ConcKey].bytes = Overlay(@, thr.t[t].b)]
    /\ Step(t, [thr.t[t] EXCEPT !.pc = "parse"])

\* the rest of the fetcher, on b
ConcParse(t) ==
    /\ thr.t[t].pc = "parse"
    /\ LET out == ConcParsed(thr.t[t].b)
       IN  Step(t, [thr.t[t] EXCEPT !.ok = out.ok, !.err = out.err, !.pc = "done"])
    /\ UNCHANGED cache

InitConc ==
    /\ LibInit /\ DashInit /\ TableIdle /\ RollIdle
    /\ \E op \in ConcOps :
        thr = [op |-> op, t |-> [i \in 1..2 |-> [NoThread EXCEPT !.pc = "check"]]]

NextConc ==
    \E t \in Threads :
        \/ ConcCheck(t)
        \/ ConcRead(t)
        \/ ConcGet(t)
        \/ ConcOpen(t)
        \/ ConcWrite(t)
        \/ ConcParse(t)

SpecConc == InitConc /\ [][NextConc]_vars

(***************************************************************************)
(* Claims about the table pipelines (SpecTable)                            *)
(***************************************************************************)
\* the PROVIDER field of row i of a table
ProviderField(tbl, i) == tbl.rows[i][ColIndex(tbl.cols, T_PROVIDER)].s

PipelineReturned == tout.done /\ tout.out.ok

\* C1: with a non-empty PeerSet, every row of the table a peer-filtering
\* fetch returns has a PROVIDER field that contains, ignoring case, at least
\* one token of the PeerSet as the caller gave it.
C1_RowsContainAToken ==
    (PipelineReturned /\ tin.providers # <<>>) =>
        \A i \in 1..Len(tout.out.result.rows) :
            \E n \in 1..Len(tin.providers) :
                Contains(Lower(ProviderField(tout.out.result, i)), Lower(tin.providers[n]))

\* row i of t is row i of u, column by column
SameCells(t, u, i) ==
    \A j \in 1..Len(t.cols) :
        /\ HasCol(u.cols, t.cols[j])
        /\ t.rows[i][j] = u.rows[i][ColIndex(u.cols, t.cols[j])]

\* t is the long form of u: one row per row of u and column of u other
\* than PROVIDER, holding the row's PROVIDER, the column's label and the cell
IsMeltOf(t, u) ==
    LET n == Len(u.rows)
        vc == SelectSeq2(u.cols, {j \in 1..Len(u.cols) : u.cols[j] # T_PROVIDER}, 1)
    IN  /\ t.cols = <<T_PROVIDER, T_metric_or_date, T_value>>
        /\ Len(t.rows) = n * Len(vc)
        /\ \A c \in 1..Len(vc) : \A i \in 1..n :
              t.rows[(c - 1) * n + i] =
                  <<u.rows[i][ColIndex(u.cols, T_PROVIDER)], StrVal(vc[c]),
                    u.rows[i][ColIndex(u.cols, vc[c])]>>

HasTimeCol(cols) == \E j \in 1..Len(cols) : IsTimeCol(cols[j])

\* C2 as stated: with an empty PeerSet the table returned is the normalized
\* table, row for row and unchanged.
C2_EmptyPeerSetReturnsNormalized ==
    (PipelineReturned /\ tin.providers = <<>>) => tout.out.result = tout.out.norm

\* C2 as amended: with an empty PeerSet the peer filter keeps the normalized
\* table as it is.  The acute-discharge fetcher returns that table; the A&E
\* fetcher returns its rows in order, each reduced to period, PROVIDER and
\* the metric columns; the ambulance fetcher returns it unchanged unless a
\* column is a time column, and then returns its long (melted) form.
C2_EmptyPeerSetKeepsEveryRow ==
    (PipelineReturned /\ tin.providers = <<>>) =>
        LET o == tout.out
        IN  /\ o.filt = o.norm
            /\ tin.op = "acute" => o.result = o.norm
            /\ tin.op = "ae" =>
                  /\ Len(o.result.rows) = Len(o.norm.rows)
                  /\ HasCol(o.result.cols, T_period) /\ HasCol(o.result.cols, T_PROVIDER)
                  /\ \A i \in 1..Len(o.result.rows) : SameCells(o.result, o.norm, i)
            /\ (tin.op = "amb" /\ ~HasTimeCol(o.norm.cols)) => o.result = o.norm
            /\ (tin.op = "amb" /\ HasTimeCol(o.norm.cols)) => IsMeltOf(o.result, o.norm)

\* an empty PeerSet met rows, metric and other columns, and a time column
C2_Witness ==
    /\ PipelineReturned /\ tin.providers = <<>>
    /\ tin.op = "amb" /\ HasTimeCol(tout.out.norm.cols)
    /\ Len(tout.out.norm.rows) = MaxRows
    /\ Len(tout.out.result.rows) > Len(tout.out.norm.rows)

MsgOf(op) == IF op = "ae" THEN MsgAE ELSE IF op = "amb" THEN MsgAmb ELSE MsgAcute

\* C10: the A&E and the ambulance fetcher either fail with an error that
\* names the dataset and return no table, or return a table whose PROVIDER
\* field is the resolved provider column as text.
C10_ResolvedOrDatasetError ==
    (tout.done /\ tin.op \in {"ae", "amb"}) =>
        IF tout.out.ok
        THEN /\ HasCol(tout.out.norm.cols, tout.out.provcol)
             /\ \A i \in 1..Len(tout.out.norm.rows) :
                   ProviderField(tout.out.norm, i)
                       = AsStr(Column(tout.out.norm, tout.out.provcol)[i])
        ELSE tout.out.err = "ValueError" /\ tout.out.msg = MsgOf(tin.op)

(***************************************************************************)
(* Claims about the fetchers and the cache store (Spec)                    *)
(***************************************************************************)
\* the step is an invocation
IsInvocation == calls' # calls

\* an invocation of the same fetcher for the same period has returned a table
FetchedBefore(call) ==
    \E c \in DOMAIN first : c.op = call.op /\ c.month = call.month

\* C3: once a fetch for a (dataset, period) key has completed successfully,
\* a later fetch for the same key issues no HTTP request, and one with the
\* same arguments returns the table the first one returned.
C3_RefetchServedFromCache ==
    [][ IsInvocation =>
          /\ FetchedBefore(last'.call) => last'.reqs = <<>>
          /\ last'.call \in DOMAIN first =>
                (last'.ok /\ last'.result = first[last'.call]) ]_vars

\* a second A&E fetch answered from the cache with rows in it
C3_Witness ==
    /\ calls = 2 /\ last.call.op = "ae" /\ last.ok /\ last.reqs = <<>>
    /\ last.result.rows # <<>>

\* C4: a fetch of a period absent from the lookup (such as "2099-01") fails
\* with the unsupported-period error, issues no HTTP request and leaves the
\* cache store as it was.
C4_UnlistedPeriodRejected ==
    [][ (IsInvocation /\ last'.call.op = "rtt"
            /\ last'.call.month \notin DOMAIN RttLookup) =>
          /\ ~last'.ok /\ last'.err = "ValueError" /\ last'.msg = MsgMonth
          /\ last'.reqs = <<>>
          /\ cache' = cache /\ wrote' = wrote ]_vars

\* "2099-01" was asked for while the cache store held a file
C4_Witness ==
    /\ last.call.op = "rtt" /\ last.call.month = "2099-01" /\ last.err = "ValueError"
    /\ \E k \in CacheKeys : cache[k].exists

\* C6: the cache store is write-once: a key that has been written is never
\* written again, and its content never changes.
C6_WriteOnce ==
    [][ \A k \in CacheKeys :
          cache[k].exists => (cache'[k] = cache[k] /\ wrote'[k] = wrote[k]) ]_vars

\* a listed RTT month was fetched while its archive was in the cache store
C6_Witness ==
    /\ calls = 2 /\ last.call.op = "rtt" /\ last.reqs = <<>>
    /\ last.call.month \in DOMAIN RttLookup
    /\ wrote[RttKey(last.call.month)] = 1

\* the cache key a URL is stored under
KeyOfUrl(url) ==
    IF \E i \in 1..Len(AEM_MONTH_FILES) : AEM_MONTH_FILES[i].url = url
    THEN AeKey(AEM_MONTH_FILES[CHOOSE i \in 1..Len(AEM_MONTH_FILES) :
                                  AEM_MONTH_FILES[i].url = url].label)
    ELSE IF url = AMB_HANDOVER_URL THEN AmbKey
    ELSE IF url = ACUTE_DISCHARGE_URL THEN AcuteKey
    ELSE IF url = KH03_Q4_2024_25_CSV THEN Kh03Key
    ELSE RttKey(CHOOSE m \in DOMAIN RttLookup : RttLookup[m] = url)

\* C8: a transport failure surfaces as an error without retry: the failed
\* URL was requested once, nothing was requested after it, and the cache
\* store holds no entry for its key.
C8_TransportFailureNoRetry ==
    last.failed # "" =>
        /\ ~last.ok /\ last.err = "RequestException"
        /\ Count(last.reqs, last.failed) = 1
        /\ last.reqs[Len(last.reqs)] = last.failed
        /\ ~cache[KeyOfUrl(last.failed)].exists

\* the third download of an A&E fetch failed
C8_Witness ==
    /\ last.call.op = "ae" /\ last.failed = AEM_MONTH_FILES[3].url
    /\ Len(last.reqs) = 3
    /\ cache[AeKey(AEM_MONTH_FILES[2].label)].exists

(***************************************************************************)
(* Claim about the dashboard (SpecDash)                                    *)
(***************************************************************************)
\* C9: an error raised by a fetch is caught in the branch of the button
\* clicked and displayed as a message; the script is not terminated, so the
\* buttons, which need nothing but a running script, can be clicked again.
C9_FaultIsolated ==
    /\ alive
    /\ (last.call # NoCall /\ ~last.ok) =>
          (ui.kind = "error" /\ ui.text = ErrText(last.err, last.msg))
    /\ (last.call # NoCall /\ last.ok) => ui.kind = "success"

\* the A&E fetch failed on a schema mismatch (the error page it cached is
\* still there), and the RTT fetch clicked after it returned a table
C9_Witness ==
    /\ alive /\ calls = 2
    /\ cache[AeKey(AEM_MONTH_FILES[1].label)].bytes = ToCsv(ReadCsv(ErrorPageCsv).tbl)
    /\ last.call.op = "rtt" /\ last.ok /\ ui.kind = "success"

(***************************************************************************)
(* Claims about the rolling average (SpecRoll)                             *)
(***************************************************************************)
RowsOf(x, g) == {i \in 1..Len(x) : x[i].g = g}

\* the row of group g in x that has k rows of the group dated before it
NthByDate(x, g, k) ==
    {i \in RowsOf(x, g) : Cardinality({j \in RowsOf(x, g) : x[j].d < x[i].d}) = k}

\* C5: a group with fewer than 4 periods gets no averaged value on any of
\* its rows; in a group with exactly 12 consecutive periods, all observed,
\* the average on the 12th row in ascending date order is the arithmetic
\* mean of all 12 values, in whatever order the rows were given.
C5_RollingAverage ==
    rout.done =>
        \A g \in {"A", "B"} :
            /\ Cardinality(RowsOf(rin, g)) < 4 =>
                 \A i \in RowsOf(rout.x, g) : ~rout.x[i].avg_12w.ok
            /\ (/\ Cardinality(RowsOf(rin, g)) = 12
                /\ \A i \in RowsOf(rin, g) : rin[i].v.obs) =>
                 \A i \in NthByDate(rout.x, g, 11) :
                    /\ rout.x[i].avg_12w.ok
                    /\ rout.x[i].avg_12w.n = 12
                    /\ rout.x[i].avg_12w.sum = SumValues(rin, RowsOf(rin, g))

\* a series of 12 observed weeks given latest first, beside a series of 3
C5_Witness ==
    /\ rout.done
    /\ Cardinality(RowsOf(rin, "A")) = 12
    /\ \A i \in RowsOf(rin, "A") : rin[i].v.obs
    /\ Cardinality(RowsOf(rin, "B")) = 3
    /\ rin[1].g = "B" /\ rin[1].d = DateText(3)
    /\ rin[Len(rin)].d = DateText(1)
    /\ \E i \in NthByDate(rout.x, "A", 11) : rout.x[i].avg_12w.sum > 0

(***************************************************************************)
(* Claims about fetches running at once (SpecConc)                         *)
(***************************************************************************)
\* two files hold the same parts
SameBytes(a, b) ==
    /\ Len(a) = Len(b)
    /\ \A i \in 1..Len(a) :
        /\ a[i].tag = b[i].tag
        /\ a[i].name = b[i].name
        /\ a[i].n = b[i].n
        /\ a[i].tag = "entry" => a[i].data = b[i].data

AllDone == \A t \in Threads : thr.t[t].pc = "done"

\* the fetch found the file, or its download was answered with a data file
NoBadDownload(t) == thr.t[t].saw \/ (thr.t[t].got /\ IsContainer(thr.t[t].b))

\* C7: when two fetches of the same uncached key run at once and the
\* server answers each download with a data file, the cache file ends up
\* as exactly the bytes of one of the downloads and both fetches return a
\* table.
C7_ConcurrentFetchesLeaveOneDownload ==
    (AllDone /\ \A t \in Threads : NoBadDownload(t)) =>
        /\ \A t \in Threads : thr.t[t].ok
        /\ \E t \in Threads : thr.t[t].got /\ SameBytes(cache[ConcKey].bytes, thr.t[t].b)

(***************************************************************************)
(* Claims about what the cache store holds (Spec)                          *)
(***************************************************************************)
AllUrls ==
    {AEM_MONTH_FILES[i].url : i \in 1..Len(AEM_MONTH_FILES)}
        \cup {RttLookup[m] : m \in DOMAIN RttLookup}
        \cup {AMB_HANDOVER_URL, ACUTE_DISCHARGE_URL, KH03_Q4_2024_25_CSV}

\* the URL whose download is stored under the key
UrlOfKey(k) == CHOOSE url \in AllUrls : KeyOfUrl(url) = k

IsCsvKey(k) == k[3] = ".csv"

\* the file under key k is, part for part, the response body of revision v
IsBodyVerbatim(k, v) ==
    IF IsCsvKey(k) THEN cache[k].bytes = ServerBody(UrlOfKey(k), v)
    ELSE SameBytes(cache[k].bytes, ServerBody(UrlOfKey(k), v))

SubstringRows(tbl, providers) ==
    {i \in 1..Len(tbl.rows) :
        \E n \in 1..Len(providers) :
            Contains(Lower(ProviderField(tbl, i)), Lower(providers[n]))}

\* C12: with a non-empty PeerSet the filter raises nothing and keeps, in
\* order, exactly the rows of the normalized table whose PROVIDER contains
\* at least one token as a case-insensitive substring; when no row does,
\* the table kept is empty.
C12_RetainedIffContains ==
    (PipelineReturned /\ tin.providers # <<>>) =>
        tout.out.filt.rows =
            SelectSeq2(tout.out.norm.rows, SubstringRows(tout.out.norm, tin.providers), 1)

(***************************************************************************)
(* Claim about the order of an invocation's steps (Spec)                   *)
(***************************************************************************)
\* the invocation being taken issued a GET of url, and the GET succeeded
Downloaded(url) == Count(last'.reqs, url) > 0 /\ url # last'.failed

\* the invocation being taken ended in pd.read_csv raising on the body of url
CsvParseFailed(url) ==
    /\ last'.err = "EmptyDataError"
    /\ last'.reqs # <<>> /\ last'.reqs[Len(last'.reqs)] = url

====
